---- MODULE Spec2Model ----
(***************************************************************************)
(* A model of map_ts_dependencies (src/main.py): the per-file scan state   *)
(* machine driven by the regex lexer, the merge of every file's function   *)
(* map into the global tables, the dependency filter, the memoized level   *)
(* calculation and the level report.                                       *)
(*                                                                         *)
(* The lexer's input is abstracted to the sequence of tokens that          *)
(* TOKEN_REGEX.finditer yields: each pull of next(tok_itr) draws the next  *)
(* lexeme, or the end of the sequence, from the finite alphabet Lexemes.   *)
(* Every token is taken to be preceded by one character that no            *)
(* alternative matches (finditer skips it), which fixes the offsets that   *)
(* line_start and Token.column are computed from.  SpecLex scans one text  *)
(* character by character instead, with the matches of TOKEN_REGEX.        *)
(***************************************************************************)
EXTENDS Integers, Sequences, FiniteSets, TLC

\* Bound on the number of tokens the lexer yields over one run.
MaxTokens == 5

\* Bound standing for the interpreter's recursion limit, counted in nested
\* get_level calls; it exceeds the number of function names of the model, so
\* no acyclic graph of the model reaches it.
RecursionLimit == 4

\* Function (and identifier) names that occur in scanned text.
Names == {"a", "b"}

\* Names of the merged tables that InitGraph draws (one more than Names, so
\* that chains of three functions occur).
GraphNames == Names \cup {"c"}

\* The files list_files yields.
Paths == {"p1", "p2"}

VARIABLES
    pc,             \* position in the module-level script
    scanned,        \* paths list_files has yielded so far
    budget,         \* tokens the lexer may still yield (model bound)
    funcs,          \* global function table: name -> set of identifiers
    funcOrder,      \* insertion order of the keys of funcs
    func_paths,     \* global path table: name -> path
    path,           \* ctx.path
    state,          \* ctx._state, by class name ("None" once run returned)
    ctxFuncs,       \* ctx.funcs
    ctxOrder,       \* insertion order of the keys of ctx.funcs
    line_num,       \* ctx.line_num
    line_start,     \* ctx.line_start
    token,          \* ctx.token (kind "UNSET" while the attribute is missing)
    curr_func_name, \* ctx.curr_func_name
    curr_func_ids,  \* ctx.curr_func_ids
    paren_level,    \* ctx.paren_level
    tok_itr,        \* ctx.tok_itr: "unset", "open" or "exhausted"
    offset,         \* end offset of the last match of tok_itr
    consumed,       \* history: the lexemes pulled from tok_itr so far
    stdout,         \* lines printed to stdout, as records
    stderr,         \* lines printed to stderr, as records
    exc,            \* the exception that ended the run ("None" if none)
    raw,            \* history: the global function table as merged, unfiltered
    merged,         \* history: path and function map of each file merged
    runs,           \* history: key -> number of runs of get_level's body
    data,           \* the text a character-level scan reads (else empty)
    idx,            \* loop index of the filter loop and of the level loop
    cache,          \* get_level.cache: <<keys, key>> -> level
    stack,          \* the active get_level calls, innermost last
    levels          \* levels: level -> set of function names

ctxVars == <<path, state, ctxFuncs, ctxOrder, line_num, line_start, token,
             curr_func_name, curr_func_ids, paren_level, tok_itr, offset,
             consumed>>
tableVars == <<funcs, funcOrder, func_paths>>
levelVars == <<cache, stack, levels>>
vars == <<pc, scanned, budget, tableVars, ctxVars, stdout, stderr, exc, raw,
          merged, runs, data, idx, levelVars>>

EmptyMap == [x \in {} |-> {}]

----------------------------------------------------------------------------
\* Lexer: token_spec, TOKEN_REGEX and Token

\* The text of a function-declaration head naming n; the FUNCSTART pattern
\* ends in ([^{;]*{), so every head carries its opening brace.
HeadText(n) == "function " \o n \o "(){"

\* The lexemes (kind, text) of the model's alphabet, one or more per
\* alternative of token_spec.
Lexemes ==
    {[kind |-> "FUNCSTART", value |-> HeadText(n)] : n \in Names}
    \cup {[kind |-> "IDENTIFIER", value |-> n] : n \in Names}
    \cup {[kind |-> "OPEN_PAREN", value |-> "{"],
          [kind |-> "CLOSE_PAREN", value |-> "}"],
          [kind |-> "NEWLINE", value |-> "\n"],
          [kind |-> "IGNORE", value |-> "//xr"]}

\* The attribute ctx.token before the first pull: FileContext.__init__ does
\* not set it.
UnsetToken == [kind |-> "UNSET", value |-> "", line |-> 0, column |-> 0]

\* re.match(token_spec['FUNCSTART'], value)['funcname']
funcname(value) == CHOOSE n \in Names : value = HeadText(n)

\* A variant of HasBrace for a head pattern that stops before the brace.
HasBrace_Never(value) == FALSE

\* '{' in value, for the text of a FUNCSTART token
HasBrace(value) == \E n \in Names : value = HeadText(n)

\* mo.start() and mo.end() of the match that yields lexeme lx
MatchStart == offset + 1
MatchEnd(lx) == MatchStart + Len(lx.value)

\* _get_next_token with a match at hand: the Token built from lexeme lx
NextToken(lx) ==
    [kind |-> lx.kind, value |-> lx.value, line |-> line_num,
     column |-> MatchStart - line_start]

\* _get_next_token's effect on the context for lexeme lx
Pull(lx) ==
    /\ budget > 0
    /\ budget' = budget - 1
    /\ token' = NextToken(lx)
    /\ offset' = MatchEnd(lx)
    /\ consumed' = Append(consumed, lx)
    /\ IF lx.kind = "NEWLINE"
         THEN /\ line_start' = MatchEnd(lx)
              /\ line_num' = line_num + 1
         ELSE UNCHANGED <<line_start, line_num>>

\* next(tok_itr) raising StopIteration
Exhaust ==
    /\ tok_itr' = "exhausted"
    /\ UNCHANGED <<budget, token, offset, consumed, line_start, line_num>>

----------------------------------------------------------------------------
\* FileContext

\* FileContext.__init__ for path p; the remaining attributes are missing
\* until a state sets them and are given placeholder values.
NewContext(p) ==
    /\ path' = p
    /\ state' = "Start"
    /\ ctxFuncs' = EmptyMap
    /\ ctxOrder' = <<>>
    /\ line_num' = 1
    /\ line_start' = 0
    /\ token' = UnsetToken
    /\ curr_func_name' = ""
    /\ curr_func_ids' = {}
    /\ paren_level' = 0
    /\ tok_itr' = "unset"
    /\ offset' = 0
    /\ consumed' = <<>>

\* No FileContext is alive: before the first file, and once a file's maps
\* have been merged (the old ctx is never read again).
NoContext ==
    /\ path = ""
    /\ state = "None"
    /\ ctxFuncs = EmptyMap
    /\ ctxOrder = <<>>
    /\ line_num = 1
    /\ line_start = 0
    /\ token = UnsetToken
    /\ curr_func_name = ""
    /\ curr_func_ids = {}
    /\ paren_level = 0
    /\ tok_itr = "unset"
    /\ offset = 0
    /\ consumed = <<>>

\* The diagnostic line of FileContext.run
Diagnostic ==
    [path |-> path, line |-> token.line, column |-> token.column,
     text |-> token.value]

\* A variant of RunExcept in which the file loop survives the failure and
\* goes on with the next file.
RunExcept_Continue(e) ==
    /\ pc' = "files"
    /\ exc' = e
    /\ stderr' = Append(stderr, Diagnostic)

\* FileContext.run's except clause for an exception e of the state machine:
\* formatting the diagnostic reads self.token, which raises AttributeError
\* while the attribute is missing; otherwise the line is printed and e is
\* raised again, which ends the run at module level.
RunExcept(e) ==
    /\ pc' = "crashed"
    /\ IF token.kind = "UNSET"
         THEN /\ exc' = "AttributeError"
              /\ UNCHANGED stderr
         ELSE /\ exc' = e
              /\ stderr' = Append(stderr, Diagnostic)

----------------------------------------------------------------------------
\* The states of the scan state machine

Running(s) == pc = "scan" /\ state = s

\* Start.do
StartDo ==
    /\ Running("Start")
    /\ state' = "ReadData"
    /\ UNCHANGED <<pc, scanned, budget, tableVars, path, ctxFuncs, ctxOrder,
                   line_num, line_start, token, curr_func_name,
                   curr_func_ids, paren_level, tok_itr, offset, consumed,
                   stdout, stderr, exc, raw, merged, runs, data, idx,
                   levelVars>>

\* ReadData.do: the file is read and tokenized, or open/read raises
ReadDataDo ==
    /\ Running("ReadData")
    /\ \/ /\ tok_itr' = "open"
          /\ state' = "GetNextToken"
          /\ UNCHANGED <<pc, stderr, exc>>
       \/ /\ RunExcept("OSError")
          /\ UNCHANGED <<tok_itr, state>>
    /\ UNCHANGED <<scanned, budget, tableVars, path, ctxFuncs, ctxOrder,
                   line_num, line_start, token, curr_func_name,
                   curr_func_ids, paren_level, offset, consumed, stdout,
                   raw, merged, runs, data, idx, levelVars>>

\* A variant of GetNextTokenDo that stays in GetNextToken at the end of the
\* token sequence.
GetNextTokenDo_Again ==
    /\ Running("GetNextToken")
    /\ \/ \E lx \in Lexemes :
            /\ Pull(lx)
            /\ state' = IF lx.kind = "FUNCSTART" THEN "FuncStartState"
                                                 ELSE "GetNextToken"
            /\ UNCHANGED tok_itr
       \/ /\ Exhaust
          /\ state' = "GetNextToken"
    /\ UNCHANGED <<pc, scanned, tableVars, path, ctxFuncs, ctxOrder,
                   curr_func_name, curr_func_ids, paren_level, stdout,
                   stderr, exc, raw, merged, runs, data, idx, levelVars>>

\* GetNextToken.do
GetNextTokenDo ==
    /\ Running("GetNextToken")
    /\ \/ \E lx \in Lexemes :
            /\ Pull(lx)
            /\ state' = IF lx.kind = "FUNCSTART" THEN "FuncStartState"
                                                 ELSE "GetNextToken"
            /\ UNCHANGED tok_itr
       \/ /\ Exhaust
          /\ state' = "EndState"
    /\ UNCHANGED <<pc, scanned, tableVars, path, ctxFuncs, ctxOrder,
                   curr_func_name, curr_func_ids, paren_level, stdout,
                   stderr, exc, raw, merged, runs, data, idx, levelVars>>

\* FuncStartState.do
FuncStartStateDo ==
    /\ Running("FuncStartState")
    /\ curr_func_name' = funcname(token.value)
    /\ curr_func_ids' = {}
    /\ paren_level' = IF HasBrace(token.value) THEN 1 ELSE 0
    /\ state' = "ReadFunc"
    /\ UNCHANGED <<pc, scanned, budget, tableVars, path, ctxFuncs, ctxOrder,
                   line_num, line_start, token, tok_itr, offset, consumed,
                   stdout, stderr, exc, raw, merged, runs, data, idx,
                   levelVars>>

\* A variant of Notice that names the enclosing function.
Notice_Outer(value) ==
    [kind |-> "nested", name |-> curr_func_name, path |-> path]

\* The notice ReadFunc.do prints for a nested declaration head
Notice(value) ==
    [kind |-> "nested", name |-> funcname(value), path |-> path]

\* ReadFunc.do below the pull: the branch taken for the pulled lexeme lx
ReadFuncOn(lx) ==
    /\ UNCHANGED tok_itr
    /\ stdout' = IF lx.kind = "FUNCSTART"
                   THEN Append(stdout, Notice(lx.value)) ELSE stdout
    /\ curr_func_ids' = IF lx.kind = "IDENTIFIER"
                          THEN curr_func_ids \cup {lx.value}
                          ELSE curr_func_ids
    /\ paren_level' = CASE lx.kind = "OPEN_PAREN" -> paren_level + 1
                        [] lx.kind = "CLOSE_PAREN" -> paren_level - 1
                        [] OTHER -> paren_level
    /\ state' = IF lx.kind = "CLOSE_PAREN" /\ paren_level' = 0
                  THEN "EndFunc" ELSE "ReadFunc"
    /\ UNCHANGED <<pc, stderr, exc>>

\* ReadFunc.do on a pulled token
ReadFuncToken(lx) == Pull(lx) /\ ReadFuncOn(lx)

\* A variant of ReadFuncEnd that catches StopIteration as GetNextToken.do
\* does.
ReadFuncEnd_Caught ==
    /\ Exhaust
    /\ state' = "EndState"
    /\ UNCHANGED <<pc, exc, stderr, stdout, curr_func_ids, paren_level>>

\* ReadFunc.do at the end of the token sequence: next() raises
\* StopIteration, which ReadFunc.do does not catch
ReadFuncEnd ==
    /\ Exhaust
    /\ RunExcept("StopIteration")
    /\ UNCHANGED <<state, stdout, curr_func_ids, paren_level>>

\* ReadFunc.do
ReadFuncDo ==
    /\ Running("ReadFunc")
    /\ \/ \E lx \in Lexemes : ReadFuncToken(lx)
       \/ ReadFuncEnd
    /\ UNCHANGED <<scanned, tableVars, path, ctxFuncs, ctxOrder,
                   curr_func_name, raw, merged, runs, data, idx, levelVars>>

\* d[k] = v for a dict d with key order o
Put(d, k, v) == [x \in DOMAIN d \cup {k} |-> IF x = k THEN v ELSE d[x]]
PutOrder(o, d, k) == IF k \in DOMAIN d THEN o ELSE Append(o, k)

\* EndFunc.do
EndFuncDo ==
    /\ Running("EndFunc")
    /\ ctxFuncs' = Put(ctxFuncs, curr_func_name, curr_func_ids)
    /\ ctxOrder' = PutOrder(ctxOrder, ctxFuncs, curr_func_name)
    /\ state' = "GetNextToken"
    /\ UNCHANGED <<pc, scanned, budget, tableVars, path, line_num,
                   line_start, token, curr_func_name, curr_func_ids,
                   paren_level, tok_itr, offset, consumed, stdout, stderr,
                   exc, raw, merged, runs, data, idx, levelVars>>

\* EndState.do: returns None, so Context.run returns
EndStateDo ==
    /\ Running("EndState")
    /\ state' = "None"
    /\ UNCHANGED <<pc, scanned, budget, tableVars, path, ctxFuncs, ctxOrder,
                   line_num, line_start, token, curr_func_name,
                   curr_func_ids, paren_level, tok_itr, offset, consumed,
                   stdout, stderr, exc, raw, merged, runs, data, idx,
                   levelVars>>

----------------------------------------------------------------------------
\* The file loop

\* The loop header takes the next path of list_files and runs a new
\* FileContext from Start
NewFile ==
    /\ pc = "files"
    /\ \E p \in Paths \ scanned :
          /\ scanned' = scanned \cup {p}
          /\ NewContext(p)
    /\ pc' = "scan"
    /\ UNCHANGED <<budget, tableVars, stdout, stderr, exc, raw, merged,
                   runs, data, idx, levelVars>>

\* d1 |= d2 on key orders: the keys of d1 keep their place, the new keys of
\* d2 follow in d2's order
MergeOrder(o1, o2) ==
    LET IsNew(k) == \A i \in 1..Len(o1) : o1[i] # k
    IN  o1 \o SelectSeq(o2, IsNew)

\* A variant of MergeMap in which d1's value wins on a common key.
MergeMap_FirstWins(d1, d2) ==
    [x \in DOMAIN d1 \cup DOMAIN d2 |->
        IF x \in DOMAIN d1 THEN d1[x] ELSE d2[x]]

\* d1 |= d2 on the mappings: d2's value wins on a common key
MergeMap(d1, d2) ==
    [x \in DOMAIN d1 \cup DOMAIN d2 |->
        IF x \in DOMAIN d2 THEN d2[x] ELSE d1[x]]

\* The FileContext goes out of use
DropContext ==
    /\ path' = ""
    /\ state' = "None"
    /\ ctxFuncs' = EmptyMap
    /\ ctxOrder' = <<>>
    /\ line_num' = 1
    /\ line_start' = 0
    /\ token' = UnsetToken
    /\ curr_func_name' = ""
    /\ curr_func_ids' = {}
    /\ paren_level' = 0
    /\ tok_itr' = "unset"
    /\ offset' = 0
    /\ consumed' = <<>>

\* A variant of Merge that records the path of the file just scanned for
\* every function of the merged table.
Merge_AllPaths ==
    /\ pc = "scan"
    /\ state = "None"
    /\ funcs' = MergeMap(funcs, ctxFuncs)
    /\ funcOrder' = MergeOrder(funcOrder, ctxOrder)
    /\ func_paths' = [f \in DOMAIN funcs \cup DOMAIN ctxFuncs |-> path]
    /\ merged' = Append(merged, [path |-> path, funcs |-> ctxFuncs])
    /\ DropContext
    /\ pc' = "files"
    /\ UNCHANGED <<scanned, budget, stdout, stderr, exc, raw, runs, data,
                   idx, levelVars>>

\* ctx.run has returned: the file's maps are merged into the global tables
Merge ==
    /\ pc = "scan"
    /\ state = "None"
    /\ funcs' = MergeMap(funcs, ctxFuncs)
    /\ funcOrder' = MergeOrder(funcOrder, ctxOrder)
    /\ func_paths' = MergeMap(func_paths, [f \in DOMAIN ctxFuncs |-> path])
    /\ merged' = Append(merged, [path |-> path, funcs |-> ctxFuncs])
    /\ DropContext
    /\ pc' = "files"
    /\ UNCHANGED <<scanned, budget, stdout, stderr, exc, raw, runs, data,
                   idx, levelVars>>

\* list_files is exhausted: the file loop ends
EndFiles ==
    /\ pc = "files"
    /\ pc' = "filter"
    /\ idx' = 1
    /\ raw' = funcs
    /\ UNCHANGED <<merged, runs, data>>
    /\ UNCHANGED <<scanned, budget, tableVars, ctxVars, stdout, stderr, exc,
                   levelVars>>

----------------------------------------------------------------------------
\* The dependency filter loop

\* A variant of FilteredDeps that only knows the keys the filter loop has
\* come to so far, so that a reference to a function merged later is lost.
FilteredDeps_Seen(deps) ==
    {d \in deps : \E i \in 1..idx : funcOrder[i] = d}

\* A variant of FilteredDeps without the membership test.
FilteredDeps_All(deps) == deps

\* filtered_deps for the raw identifier set deps
FilteredDeps(deps) == {d \in deps : d \in DOMAIN funcs}

\* One turn of the outer loop, for the idx-th item of funcs: the assignment
\* funcs[fname] = filtered_deps sits in the inner loop, so it only happens
\* when deps has an element
FilterStep ==
    /\ pc = "filter"
    /\ idx <= Len(funcOrder)
    /\ LET fname == funcOrder[idx]
           deps == funcs[fname]
       IN  funcs' = IF deps # {}
                      THEN [funcs EXCEPT ![fname] = FilteredDeps(deps)]
                      ELSE funcs
    /\ idx' = idx + 1
    /\ UNCHANGED <<pc, scanned, budget, funcOrder, func_paths, ctxVars,
                   stdout, stderr, exc, raw, merged, runs, data, levelVars>>

\* The filter loop ends
FilterEnd ==
    /\ pc = "filter"
    /\ idx > Len(funcOrder)
    /\ pc' = "levels"
    /\ idx' = 1
    /\ UNCHANGED <<scanned, budget, tableVars, ctxVars, stdout, stderr, exc,
                   raw, merged, runs, data, levelVars>>

----------------------------------------------------------------------------
\* memoize_level and get_level

Max(S) == CHOOSE m \in S : \A x \in S : x <= m
Min(S) == CHOOSE m \in S : \A x \in S : m <= x

\* cache_key: the sorted tuple of the keys is one value per key set
CacheKey(key) == <<DOMAIN funcs, key>>

\* `if val := self.cache.get(cache_key)`: a cached value counts only when it
\* is truthy, so a cached 0 is not a hit
CacheHit(key) ==
    /\ CacheKey(key) \in DOMAIN cache
    /\ cache[CacheKey(key)] # 0

\* self.cache[cache_key] = result
CacheStore(key, result) ==
    [k \in DOMAIN cache \cup {CacheKey(key)} |->
        IF k = CacheKey(key) THEN result ELSE cache[k]]

\* self.func(base_dict, key) is called: one more run of get_level's body
\* for key
Ran(key) ==
    [k \in DOMAIN runs \cup {key} |->
        IF k = key THEN (IF key \in DOMAIN runs THEN runs[key] + 1 ELSE 1)
                   ELSE runs[k]]

\* A call of get_level's body for key: the dependencies still to visit and
\* the levels got from those visited
Frame(key) == [key |-> key, todo |-> funcs[key], vals |-> {}]

\* Variants of Result: without the increment, with min for max, and with
\* a step of two.
Result_NoIncrement(key, vals) == IF funcs[key] = {} THEN 0 ELSE Max(vals)
Result_Min(key, vals) == IF funcs[key] = {} THEN 0 ELSE 1 + Min(vals)
Result_StepTwo(key, vals) == IF funcs[key] = {} THEN 0 ELSE 2 + Max(vals)

\* What get_level's body returns for key, given its dependencies' levels
Result(key, vals) == IF funcs[key] = {} THEN 0 ELSE 1 + Max(vals)

\* levels.setdefault(l, set()).add(fname)
AddLevel(l, fname) ==
    [k \in DOMAIN levels \cup {l} |->
        IF k \in DOMAIN levels
          THEN (IF k = l THEN levels[k] \cup {fname} ELSE levels[k])
          ELSE {fname}]

\* The result r of the call get_level(funcs, funcOrder[idx]) of the level
\* loop arrives: the function is filed under its level
Deliver(r) ==
    /\ levels' = AddLevel(r, funcOrder[idx])
    /\ idx' = idx + 1

\* One turn of the level loop begins: memoize_level.__call__ for the
\* idx-th key of funcs
LevelCall ==
    /\ pc = "levels"
    /\ stack = <<>>
    /\ idx <= Len(funcOrder)
    /\ LET fname == funcOrder[idx]
       IN  IF CacheHit(fname)
             THEN /\ Deliver(cache[CacheKey(fname)])
                                    /\ UNCHANGED <<stack, runs>>
             ELSE /\ stack' = <<Frame(fname)>>
                  /\ runs' = Ran(fname)
                  /\ UNCHANGED <<levels, idx>>
    /\ UNCHANGED <<pc, scanned, budget, tableVars, ctxVars, stdout, stderr,
                   exc, raw, merged, data, cache>>

\* The recursion get_level -> max -> lambda -> get_level would exceed the
\* interpreter's limit
TooDeep == Len(stack) >= RecursionLimit

\* The innermost call visits one more dependency d (the set is iterated in
\* no particular order): a cache hit yields its level at once, otherwise
\* get_level's body is entered for d, unless the recursion is too deep
LevelDescend ==
    /\ pc = "levels"
    /\ stack # <<>>
    /\ LET n == Len(stack)
           top == stack[n]
       IN  /\ top.todo # {}
           /\ \E d \in top.todo :
                LET rest == [top EXCEPT !.todo = top.todo \ {d}]
                IN  IF CacheHit(d)
                      THEN /\ stack' = [stack EXCEPT ![n] =
                                  [rest EXCEPT !.vals =
                                      rest.vals \cup {cache[CacheKey(d)]}]]
                           /\ UNCHANGED <<pc, exc, runs>>
                      ELSE IF TooDeep
                             THEN /\ pc' = "crashed"
                                  /\ exc' = "RecursionError"
                                  /\ stack' = <<>>
                                  /\ UNCHANGED runs
                             ELSE /\ stack' = Append(
                                        [stack EXCEPT ![n] = rest], Frame(d))
                                  /\ runs' = Ran(d)
                                  /\ UNCHANGED <<pc, exc>>
    /\ UNCHANGED <<scanned, budget, tableVars, ctxVars, stdout, stderr, raw,
                   merged, data, idx, cache, levels>>

\* The innermost call returns: its result is cached and handed to its
\* caller, the next outer call or the level loop
LevelReturn ==
    /\ pc = "levels"
    /\ stack # <<>>
    /\ LET n == Len(stack)
           top == stack[n]
           r == Result(top.key, top.vals)
       IN  /\ top.todo = {}
           /\ cache' = CacheStore(top.key, r)
           /\ IF n = 1
                THEN /\ stack' = <<>>
                     /\ Deliver(r)
                ELSE /\ stack' = [SubSeq(stack, 1, n - 1) EXCEPT ![n - 1] =
                            [@ EXCEPT !.vals = @ \cup {r}]]
                     /\ UNCHANGED <<levels, idx>>
    /\ UNCHANGED <<pc, scanned, budget, tableVars, ctxVars, stdout, stderr,
                   exc, raw, merged, runs, data>>

\* The level loop ends
LevelEnd ==
    /\ pc = "levels"
    /\ stack = <<>>
    /\ idx > Len(funcOrder)
    /\ pc' = "report"
    /\ UNCHANGED <<scanned, budget, tableVars, ctxVars, stdout, stderr, exc,
                   raw, merged, runs, data, idx, levelVars>>

----------------------------------------------------------------------------
\* The report loop

\* A variant of Sorted that puts the greatest element first.
RECURSIVE Sorted_Descending(_)
Sorted_Descending(S) ==
    IF S = {} THEN <<>>
    ELSE <<Max(S)>> \o Sorted_Descending(S \ {Max(S)})

\* sorted(S) for a set of integers
RECURSIVE Sorted(_)
Sorted(S) == IF S = {} THEN <<>> ELSE <<Min(S)>> \o Sorted(S \ {Min(S)})

\* What the report prints for one level: the level number and, for each of
\* its functions, the name, the path and the dependency list
LevelBlock(l) ==
    [kind |-> "level", level |-> l,
     funcs |-> {[name |-> f, path |-> func_paths[f], deps |-> funcs[f]] :
                    f \in levels[l]}]

\* The report loop over sorted(levels.keys())
Report ==
    /\ pc = "report"
    /\ LET order == Sorted(DOMAIN levels)
       IN  stdout' = stdout \o [i \in 1..Len(order) |-> LevelBlock(order[i])]
    /\ pc' = "done"
    /\ UNCHANGED <<scanned, budget, tableVars, ctxVars, stderr, exc, raw,
                   merged, runs, data, idx, levelVars>>

----------------------------------------------------------------------------
\* Specifications

Init ==
    /\ pc = "files"
    /\ scanned = {}
    /\ budget = MaxTokens
    /\ funcs = EmptyMap
    /\ funcOrder = <<>>
    /\ func_paths = EmptyMap
    /\ NoContext
    /\ stdout = <<>>
    /\ stderr = <<>>
    /\ exc = "None"
    /\ raw = EmptyMap
    /\ merged = <<>>
    /\ runs = EmptyMap
    /\ data = <<>>
    /\ idx = 0
    /\ cache = EmptyMap
    /\ stack = <<>>
    /\ levels = EmptyMap

NextGraph ==
    \/ FilterStep
    \/ FilterEnd
    \/ LevelCall
    \/ LevelDescend
    \/ LevelReturn
    \/ LevelEnd
    \/ Report

NextScan ==
    \/ NewFile
    \/ StartDo
    \/ ReadDataDo
    \/ GetNextTokenDo
    \/ FuncStartStateDo
    \/ ReadFuncDo
    \/ EndFuncDo
    \/ EndStateDo
    \/ Merge
    \/ EndFiles

Next == NextScan \/ NextGraph

Spec == Init /\ [][Next]_vars

\* The orders in which the keys K of a dict may have been inserted
Orders(K) ==
    {o \in [1..Cardinality(K) -> K] :
        \A i, j \in 1..Cardinality(K) : i # j => o[i] # o[j]}

\* The script at the head of the filter loop, with a merged table over
\* GraphNames: any such table arises from one file "p1" that declares the
\* functions in some order, each body naming the identifiers of its set
InitGraph ==
    /\ pc = "filter"
    /\ scanned = {"p1"}
    /\ budget = 0
    /\ \E K \in SUBSET GraphNames :
          /\ funcs \in [K -> SUBSET GraphNames]
          /\ funcOrder \in Orders(K)
          /\ func_paths = [f \in K |-> "p1"]
    /\ NoContext
    /\ stdout = <<>>
    /\ stderr = <<>>
    /\ exc = "None"
    /\ raw = funcs
    /\ merged = <<[path |-> "p1", funcs |-> funcs]>>
    /\ runs = EmptyMap
    /\ data = <<>>
    /\ idx = 1
    /\ cache = EmptyMap
    /\ stack = <<>>
    /\ levels = EmptyMap

SpecGraph == InitGraph /\ [][NextGraph]_vars

----------------------------------------------------------------------------
\* The scan of one file at the level of characters: TOKEN_REGEX.finditer
\* over the text data, in place of the abstract lexemes

\* Bound on the number of characters that follow the declaration head.
MaxText == 4

\* The characters of a function body of the model.
BodyChars == {"/", "b", "r", "\n", "}"}

\* The characters of the head "function a(){"
HeadChars ==
    <<"f", "u", "n", "c", "t", "i", "o", "n", " ", "a", "(", ")", "{">>

\* [_a-zA-Z] and [_\w], over the characters of the model
Letters == {"a", "b", "c", "f", "i", "n", "o", "r", "t", "u"}
WordChars == Letters

\* mo.group(): the characters s as a string
RECURSIVE Text(_)
Text(s) == IF s = <<>> THEN "" ELSE Head(s) \o Text(Tail(s))

\* The text has the characters w at index i
At(i, w) ==
    /\ i + Len(w) - 1 <= Len(data)
    /\ \A k \in 1..Len(w) : data[i + k - 1] = w[k]

\* The first index from i on that holds character c, or 0
FirstAt(i, c) ==
    LET S == {k \in i..Len(data) : data[k] = c}
    IN  IF S = {} THEN 0 ELSE Min(S)

\* IGNORE, '//[^\n]r': the index of the last character of its match at i, or
\* 0 without a match
IgnoreEnd(i) ==
    IF /\ i + 3 <= Len(data)
       /\ data[i] = "/" /\ data[i + 1] = "/"
       /\ data[i + 2] # "\n"
       /\ data[i + 3] = "r"
      THEN i + 3 ELSE 0

\* FUNCSTART: "function ", an identifier, [^);]* up to the first ")", and
\* [^{;]* up to the first "{" (the text of the model has no ";", and none
\* of the other keywords of the pattern)
FuncStartEnd(i) ==
    LET name  == i + 9
        close == FirstAt(name + 1, ")")
    IN  IF /\ At(i, <<"f", "u", "n", "c", "t", "i", "o", "n", " ">>)
           /\ name <= Len(data)
           /\ data[name] \in Letters
           /\ close # 0
          THEN FirstAt(close + 1, "{") ELSE 0

\* IDENTIFIER: the end of the longest run of word characters from i
WordEnd(i) ==
    Max({j \in i..Len(data) : \A k \in i..j : data[k] \in WordChars})

\* The match of TOKEN_REGEX at index i: the first alternative of token_spec
\* that matches there, with the index of its last character
MatchAt(i) ==
    CASE IgnoreEnd(i) # 0 -> [kind |-> "IGNORE", last |-> IgnoreEnd(i)]
      [] IgnoreEnd(i) = 0 /\ FuncStartEnd(i) # 0 ->
            [kind |-> "FUNCSTART", last |-> FuncStartEnd(i)]
      [] OTHER ->
            IF data[i] \in Letters
              THEN [kind |-> "IDENTIFIER", last |-> WordEnd(i)]
            ELSE IF data[i] = "{" THEN [kind |-> "OPEN_PAREN", last |-> i]
            ELSE IF data[i] = "}" THEN [kind |-> "CLOSE_PAREN", last |-> i]
            ELSE IF data[i] = "\n" THEN [kind |-> "NEWLINE", last |-> i]
            ELSE [kind |-> "NONE", last |-> 0]

\* The indices after the last match at which TOKEN_REGEX matches; finditer
\* yields the match at the least of them and skips the characters before it
Matches == {i \in (offset + 1)..Len(data) : MatchAt(i).kind # "NONE"}
NextMatch == Min(Matches)

\* kind and text of the match at index i
LexemeAt(i) ==
    [kind |-> MatchAt(i).kind, value |-> Text(SubSeq(data, i, MatchAt(i).last))]

\* _get_next_token on the match at index i: mo.start() is i - 1 and
\* mo.end() is the index of the last character
LexPull(i) ==
    /\ token' = [kind |-> MatchAt(i).kind, value |-> LexemeAt(i).value,
                 line |-> line_num, column |-> (i - 1) - line_start]
    /\ offset' = MatchAt(i).last
    /\ consumed' = Append(consumed, LexemeAt(i))
    /\ IF MatchAt(i).kind = "NEWLINE"
         THEN /\ line_start' = MatchAt(i).last
              /\ line_num' = line_num + 1
         ELSE UNCHANGED <<line_start, line_num>>
    /\ UNCHANGED budget

\* GetNextToken.do over the text
LexGetNextTokenDo ==
    /\ Running("GetNextToken")
    /\ IF Matches # {}
         THEN /\ LexPull(NextMatch)
              /\ state' = IF MatchAt(NextMatch).kind = "FUNCSTART"
                            THEN "FuncStartState" ELSE "GetNextToken"
              /\ UNCHANGED tok_itr
         ELSE /\ Exhaust
              /\ state' = "EndState"
    /\ UNCHANGED <<pc, scanned, tableVars, path, ctxFuncs, ctxOrder,
                   curr_func_name, curr_func_ids, paren_level, stdout,
                   stderr, exc, raw, merged, runs, data, idx, levelVars>>

\* ReadFunc.do over the text
LexReadFuncDo ==
    /\ Running("ReadFunc")
    /\ IF Matches # {}
         THEN LexPull(NextMatch) /\ ReadFuncOn(LexemeAt(NextMatch))
         ELSE ReadFuncEnd
    /\ UNCHANGED <<scanned, tableVars, path, ctxFuncs, ctxOrder,
                   curr_func_name, raw, merged, runs, data, idx, levelVars>>

\* The texts of the model: the head of function a and a body
Texts ==
    {HeadChars \o body :
        body \in UNION {[1..n -> BodyChars] : n \in 0..MaxText}}

\* A FileContext for path p1 is about to run over one of the texts
InitLex ==
    /\ pc = "scan"
    /\ scanned = {"p1"}
    /\ budget = MaxTokens
    /\ funcs = EmptyMap
    /\ funcOrder = <<>>
    /\ func_paths = EmptyMap
    /\ path = "p1"
    /\ state = "Start"
    /\ ctxFuncs = EmptyMap
    /\ ctxOrder = <<>>
    /\ line_num = 1
    /\ line_start = 0
    /\ token = UnsetToken
    /\ curr_func_name = ""
    /\ curr_func_ids = {}
    /\ paren_level = 0
    /\ tok_itr = "unset"
    /\ offset = 0
    /\ consumed = <<>>
    /\ stdout = <<>>
    /\ stderr = <<>>
    /\ exc = "None"
    /\ raw = EmptyMap
    /\ merged = <<>>
    /\ runs = EmptyMap
    /\ data \in Texts
    /\ idx = 0
    /\ cache = EmptyMap
    /\ stack = <<>>
    /\ levels = EmptyMap

NextLex ==
    \/ StartDo
    \/ ReadDataDo
    \/ LexGetNextTokenDo
    \/ FuncStartStateDo
    \/ LexReadFuncDo
    \/ EndFuncDo
    \/ EndStateDo

SpecLex == InitLex /\ [][NextLex]_vars

----------------------------------------------------------------------------
\* Properties of the level calculation

\* The dependency chains of the table g: the sequences of at most
\* |keys| + 1 keys in which each key names the next among its dependencies
Chains(g) ==
    {s \in UNION {[1..n -> DOMAIN g] : n \in 1..(Cardinality(DOMAIN g) + 1)} :
        \A i \in 1..(Len(s) - 1) : s[i + 1] \in g[s[i]]}

\* No chain of g comes back to a key it has visited.  (Only asked of a
\* table without dangling edges.)
Acyclic(g) ==
    \A s \in Chains(g) : \A i, j \in 1..Len(s) : i # j => s[i] # s[j]

\* The number of edges of the longest chain that starts at f
LongestChain(g, f) == Max({Len(s) - 1 : s \in {t \in Chains(g) : t[1] = f}})

\* The filter loop has run to its end
FilterDone ==
    \/ pc \in {"levels", "report", "done"}
    \/ pc = "crashed" /\ exc = "RecursionError"

\* The level loop has run to its end
LevelsDone == pc \in {"report", "done"}

Filed(f) == \E l \in DOMAIN levels : f \in levels[l]
LevelOf(f) == CHOOSE l \in DOMAIN levels : f \in levels[l]

\* C1: for an acyclic filtered graph the level calculation runs to its end,
\* and then every function with a dependency has a level strictly greater
\* than the level of each of its dependencies, and every function without
\* one has level 0.
C1_LevelAboveDependencies ==
    /\ (FilterDone /\ Acyclic(funcs)) => pc # "crashed"
    /\ (LevelsDone /\ Acyclic(funcs)) =>
          \A f \in DOMAIN funcs :
             /\ Filed(f)
             /\ funcs[f] = {} => LevelOf(f) = 0
             /\ \A d \in funcs[f] : LevelOf(f) > LevelOf(d)

\* A chain of three functions has been given the levels 0, 1 and 2.
C1_Witness ==
    /\ pc = "done"
    /\ Acyclic(funcs)
    /\ \E f, d, e \in DOMAIN funcs :
          /\ d \in funcs[f] /\ e \in funcs[d]
          /\ LevelOf(f) = 2 /\ LevelOf(d) = 1 /\ LevelOf(e) = 0

\* C2: for an acyclic filtered graph the level of every function is the
\* number of edges of the longest dependency chain that starts at it: 0
\* without dependencies, else 1 + the greatest level of its dependencies.
C2_LevelIsLongestChain ==
    (LevelsDone /\ Acyclic(funcs)) =>
        \A f \in DOMAIN funcs :
           /\ Filed(f)
           /\ LevelOf(f) = LongestChain(funcs, f)
           /\ LevelOf(f) = IF funcs[f] = {} THEN 0
                           ELSE 1 + Max({LevelOf(d) : d \in funcs[f]})

\* A function whose two dependencies have different levels has been filed.
C2_Witness ==
    /\ pc = "done"
    /\ Acyclic(funcs)
    /\ \E f \in DOMAIN funcs : \E d, e \in funcs[f] :
          /\ LevelOf(d) < LevelOf(e)
          /\ LevelOf(f) = LevelOf(e) + 1

\* C3: once the filter loop has run, every name of every function's
\* dependency set is a key of the global function table, and a function
\* whose raw identifier set was empty has an empty dependency set.
C3_NoDanglingEdges ==
    FilterDone =>
        \A f \in DOMAIN funcs :
           /\ funcs[f] \subseteq DOMAIN funcs
           /\ raw[f] = {} => funcs[f] = {}

\* The filter has dropped an identifier that names no function from the
\* set of a function scanned from a file, and kept one that does.
C3_Witness ==
    /\ pc = "levels"
    /\ \E f \in DOMAIN funcs :
          /\ raw[f] \ DOMAIN funcs # {}
          /\ funcs[f] # {}
          /\ funcs[f] = raw[f] \cap DOMAIN funcs

\* No level block has been printed
NoLevelReport == \A i \in 1..Len(stdout) : stdout[i].kind # "level"

\* C4: when the filtered graph has a cycle the run ends in a fatal
\* cyclic-dependency error, not in a crash by unbounded recursion, and no
\* levels are reported.
C4_CycleIsReportedAsError ==
    (FilterDone /\ ~Acyclic(funcs) /\ pc \in {"crashed", "done"}) =>
        /\ exc = "CyclicDependency"
        /\ NoLevelReport

----------------------------------------------------------------------------
\* Properties of the scan: the brace-balanced reading of the token sequence

\* The reading of a token sequence that counts every opening brace, also
\* the one a nested declaration head carries.  scopes: the braces open
\* inside the current top-level function ("F" for a head's, "B" for a bare
\* one), outermost first; owner, ids: that function's name and the
\* Identifier tokens since its head; nested: those of ids read inside a
\* nested function's body; top: the names declared outside every function
\* body; closed: the last token balanced the head of owner.
RefInit ==
    [scopes |-> <<>>, owner |-> "", ids |-> {}, nested |-> {}, top |-> {},
     closed |-> FALSE]

RefStep(r, lx) ==
    LET open == r.scopes # <<>>
        q == [r EXCEPT !.closed = FALSE]
    IN  CASE lx.kind = "FUNCSTART" ->
               IF open
                 THEN [q EXCEPT !.scopes = Append(@, "F")]
                 ELSE [q EXCEPT !.scopes = <<"F">>,
                                !.owner = funcname(lx.value),
                                !.ids = {}, !.nested = {},
                                !.top = @ \cup {funcname(lx.value)}]
          [] lx.kind = "OPEN_PAREN" /\ open ->
               [q EXCEPT !.scopes = Append(@, "B")]
          [] lx.kind = "CLOSE_PAREN" /\ open ->
               [q EXCEPT !.scopes = SubSeq(@, 1, Len(@) - 1),
                         !.closed = (Len(r.scopes) = 1)]
          [] lx.kind = "IDENTIFIER" /\ open ->
               [q EXCEPT !.ids = @ \cup {lx.value},
                         !.nested =
                            IF \E i \in 2..Len(r.scopes) : r.scopes[i] = "F"
                              THEN @ \cup {lx.value} ELSE @]
          [] OTHER -> q

RECURSIVE RefParse(_)
RefParse(s) ==
    IF s = <<>> THEN RefInit
    ELSE RefStep(RefParse(SubSeq(s, 1, Len(s) - 1)), s[Len(s)])

Ref == RefParse(consumed)

\* The scan holds the identifier set S for the function f: as the set of
\* the function being read, or as f's committed set
Holds(f, S) ==
    \/ state \in {"ReadFunc", "EndFunc"} /\ curr_func_name = f
                                         /\ S \subseteq curr_func_ids
    \/ f \in DOMAIN ctxFuncs /\ S \subseteq ctxFuncs[f]

\* C5: a top-level function is committed exactly when the scan consumes the
\* close brace that balances the brace of its head, every opening brace
\* after the head counted, and its committed set is the set of the
\* Identifier tokens between the two.
C5_CommitAtBalancingBrace ==
    pc = "scan" =>
        /\ state = "EndFunc" =>
              /\ Ref.closed
              /\ curr_func_name = Ref.owner
              /\ curr_func_ids = Ref.ids
        /\ (Ref.closed /\ state # "EndFunc") =>
              /\ Ref.owner \in DOMAIN ctxFuncs
              /\ ctxFuncs[Ref.owner] = Ref.ids

\* C6: every identifier read inside the body of a nested function, at any
\* depth and position, is in the identifier set of the enclosing top-level
\* function.
C6_NestedIdentifiersAttributed ==
    (pc = "scan" /\ Ref.nested # {}) => Holds(Ref.owner, Ref.nested)

\* C7: a declaration head inside the brace-balanced body of another
\* function produces no entry of the file's function map: every key of the
\* map is declared outside every function body.
C7_NestedHeadNotRecorded ==
    pc = "scan" => DOMAIN ctxFuncs \subseteq Ref.top

----------------------------------------------------------------------------
\* Properties of failure

\* The run was ended by a failure of a file's scan
ScanFailed == exc \in {"OSError", "StopIteration", "AttributeError"}

\* C8: when the token sequence ends in ReadFunc the scan fails with the
\* state machine still in ReadFunc (it never reaches the end state), the
\* open function is not committed to the file's map, and the run ends there.
C8_EndInBodyIsFatal ==
    [][/\ (state = "ReadFunc" /\ tok_itr' = "exhausted") =>
             /\ pc' = "crashed"
             /\ exc' = "StopIteration"
             /\ state' = "ReadFunc"
             /\ ctxFuncs' = ctxFuncs
       /\ ~(pc = "crashed")]_vars

\* The sequence of a file has ended inside a body that had named an
\* identifier.
C8_Witness ==
    /\ pc = "crashed"
    /\ exc = "StopIteration"
    /\ state = "ReadFunc"
    /\ tok_itr = "exhausted"
    /\ curr_func_ids # {}

\* C9: a step that fails a file's scan leaves the global tables as they
\* were, so the file's partial map is not merged; after it nothing happens:
\* no further file is scanned, nothing is filtered, no level is computed and
\* no level report is printed.
C9_FailureStopsTheRun ==
    [][/\ ScanFailed' =>
             /\ pc' = "crashed"
             /\ <<funcs, funcOrder, func_paths, scanned>>' =
                   <<funcs, funcOrder, func_paths, scanned>>
             /\ raw' = EmptyMap /\ cache' = EmptyMap /\ levels' = EmptyMap
             /\ NoLevelReport'
       /\ ~ScanFailed]_vars

\* A scan has failed with a function committed to the file's map and a file
\* still to come.
C9_Witness ==
    /\ ScanFailed
    /\ pc = "crashed"
    /\ ctxFuncs # EmptyMap
    /\ Paths \ scanned # {}

\* C10: every failure of the per-file state machine, also one before any
\* token was pulled, prints the diagnostic line once and then propagates the
\* original error.
C10_EveryFailureAnnotated ==
    (pc = "crashed" /\ ScanFailed) =>
        /\ stderr = <<Diagnostic>>
        /\ exc \in {"OSError", "StopIteration"}

----------------------------------------------------------------------------
\* Properties of the merge

\* The global function table is still as merged (not yet filtered)
Unfiltered == pc \in {"files", "scan"} \/ (pc = "crashed" /\ ScanFailed)

\* The identifier sets as merged
RawTable == IF Unfiltered THEN funcs ELSE raw

\* The files merged so far that committed the name f, by their position
Declaring(f) == {i \in 1..Len(merged) : f \in DOMAIN merged[i].funcs}

\* The names committed by the files merged so far
Declared == UNION {DOMAIN merged[i].funcs : i \in 1..Len(merged)}

\* C11: the tables hold one record for every name committed by a merged
\* file, and both its identifier set and its path are those of the last
\* file merged that committed it; the filtered set is drawn from that
\* file's set.
C11_LastFileWins ==
    /\ DOMAIN RawTable = Declared
    /\ DOMAIN func_paths = Declared
    /\ \A f \in Declared :
          LET last == merged[Max(Declaring(f))]
          IN  /\ RawTable[f] = last.funcs[f]
              /\ func_paths[f] = last.path
              /\ funcs[f] \subseteq last.funcs[f]

\* Two files have committed the same name with different identifier sets,
\* and the run has ended with the second file's record.
C11_Witness ==
    /\ pc = "done"
    /\ Len(merged) = 2
    /\ \E f \in DOMAIN merged[1].funcs \cap DOMAIN merged[2].funcs :
          /\ merged[1].funcs[f] # merged[2].funcs[f]
          /\ raw[f] = merged[2].funcs[f]
          /\ func_paths[f] = merged[2].path

\* The function maps of the files merged, without their order.  A file's
\* map depends on that file's text alone (NewContext starts every scan
\* afresh), so two runs over the same files in different orders have the
\* same FileMaps.
FileMaps == {merged[i].funcs : i \in 1..Len(merged)}

\* No name is committed by two of the files merged
UniqueNames ==
    \A i, j \in 1..Len(merged) :
       i # j => DOMAIN merged[i].funcs \cap DOMAIN merged[j].funcs = {}

\* The dependency edges as FileMaps alone determines them: the identifiers
\* of f's body, in the one file that declares f, that name a function
\* declared in any file
EdgesOf(f) ==
    LET m == CHOOSE m \in FileMaps : f \in DOMAIN m
    IN  {d \in m[f] : \E n \in FileMaps : d \in DOMAIN n}

EdgeTable == [f \in UNION {DOMAIN m : m \in FileMaps} |-> EdgesOf(f)]

\* C12: with function names unique across files, the filtered dependency
\* sets and the levels are those the set of file maps determines, whatever
\* the order in which the files were merged; so a reference to a function
\* of another file is an edge whichever file comes first.
C12_OrderIndependent ==
    /\ (UniqueNames /\ FilterDone) => funcs = EdgeTable
    /\ (UniqueNames /\ LevelsDone) =>
          \A f \in DOMAIN EdgeTable :
             Filed(f) /\ LevelOf(f) = LongestChain(EdgeTable, f)

\* A function of the file merged first names a function of the file merged
\* second, and has been filed one level above it.
C12_Witness ==
    /\ pc = "done"
    /\ Len(merged) = 2
    /\ UniqueNames
    /\ \E f \in DOMAIN merged[1].funcs, d \in DOMAIN merged[2].funcs :
          /\ d \in funcs[f]
          /\ LevelOf(f) = 1
          /\ LevelOf(d) = 0

----------------------------------------------------------------------------
\* Properties of the level map and the report

\* The level blocks of the report, in the order printed
IsLevelBlock(line) == line.kind = "level"
LevelBlocks == SelectSeq(stdout, IsLevelBlock)

\* C13: after the level loop every key of the global function table is in
\* the set of exactly one level, the level get_level returned for it (which
\* is its longest chain), and no level holds anything else; the report
\* prints one block per level of the map, with that level's functions, in
\* strictly ascending order of level; with no function at all the level map
\* and the report are empty.
C13_LevelMapPartitions ==
    /\ LevelsDone =>
          /\ \A f \in DOMAIN funcs :
                /\ Cardinality({l \in DOMAIN levels : f \in levels[l]}) = 1
                /\ LevelOf(f) = cache[CacheKey(f)]
                /\ LevelOf(f) = LongestChain(funcs, f)
          /\ \A l \in DOMAIN levels :
                levels[l] # {} /\ levels[l] \subseteq DOMAIN funcs
          /\ DOMAIN funcs = {} => levels = EmptyMap
    /\ pc = "done" =>
          LET B == LevelBlocks
          IN  /\ \A i, j \in 1..Len(B) : i < j => B[i].level < B[j].level
              /\ {B[i].level : i \in 1..Len(B)} = DOMAIN levels
              /\ \A i \in 1..Len(B) :
                    {r.name : r \in B[i].funcs} = levels[B[i].level]
              /\ DOMAIN funcs = {} => B = <<>>

\* Three levels have been reported.
C13_Witness ==
    /\ pc = "done"
    /\ Len(LevelBlocks) = 3
    /\ \A l \in DOMAIN levels : levels[l] # {}

----------------------------------------------------------------------------
\* Properties of the memoization

\* C14: over the level calculation of an acyclic filtered graph the body of
\* get_level runs at most once for each function name, whatever its level.
C14_BodyRunsOncePerName ==
    (FilterDone /\ Acyclic(funcs)) => \A f \in DOMAIN runs : runs[f] <= 1

----------------------------------------------------------------------------
\* Properties of the lexer over the text

\* A single-line comment runs from "//" to the end of its line
InComment(i) ==
    \E j \in 1..(i - 1) :
       /\ data[j] = "/" /\ data[j + 1] = "/"
       /\ \A k \in j..i : data[k] # "\n"

\* The identifiers of the text after the declaration head that stand
\* outside every single-line comment
CodeIdentifiers ==
    {Text(SubSeq(data, i, WordEnd(i))) :
        i \in {k \in (Len(HeadChars) + 1)..Len(data) :
                 /\ data[k] \in Letters
                 /\ data[k - 1] \notin WordChars
                 /\ ~InComment(k)}}

\* C15: the identifier set of the function being read only holds
\* identifiers that stand outside the single-line comments of its body.
C15_CommentIdentifiersSkipped ==
    (pc = "scan" /\ state \in {"ReadFunc", "EndFunc"}) =>
        curr_func_ids \subseteq CodeIdentifiers

----------------------------------------------------------------------------
\* Progress of the scan state machine

\* The place of a state on the way to the end of Context.run, among the
\* states reached without a pull
Rank(s) ==
    CASE s = "Start" -> 4
      [] s \in {"ReadData", "FuncStartState", "EndFunc"} -> 3
      [] s \in {"GetNextToken", "ReadFunc"} -> 2
      [] s = "EndState" -> 1
      [] OTHER -> 0

\* What is left of a scan: the tokens the lexer may still yield, then the
\* states that follow without a pull
Remaining(b, s) == 5 * b + Rank(s)

\* C16: every step of the scan of a file either pulls exactly one new token
\* or changes the state without a pull, it ends the scan in failure or
\* brings it nearer to its end, and the scan only ends well from
\* GetNextToken at the end of the token sequence, with no brace open.
C16_ScanTerminates ==
    [][(pc = "scan" /\ state # "None") =>
          /\ \/ /\ Len(consumed') = Len(consumed) + 1
                /\ SubSeq(consumed', 1, Len(consumed)) = consumed
                /\ budget' = budget - 1
                /\ offset' > offset
             \/ /\ consumed' = consumed
                /\ UNCHANGED <<budget, offset>>
                /\ state' # state \/ pc' = "crashed"
          /\ \/ pc' = "crashed"
             \/ /\ pc' = "scan"
                /\ Remaining(budget', state') < Remaining(budget, state)
          /\ state' = "EndState" =>
                /\ state = "GetNextToken"
                /\ tok_itr' = "exhausted"
                /\ paren_level = 0
          /\ state' = "None" => state = "EndState"
          /\ pc' = "crashed" => state \in {"ReadData", "ReadFunc"}
      ]_vars

\* A scan has ended well after it pulled the tokens of a whole function.
C16_Witness ==
    /\ pc = "scan"
    /\ state = "None"
    /\ tok_itr = "exhausted"
    /\ Len(consumed) >= 2
    /\ ctxFuncs # EmptyMap

----------------------------------------------------------------------------
\* Nested declaration heads

\* The last token pulled, once one has been
LastPulled == consumed[Len(consumed)]

\* C17: a step of ReadFunc that pulls a FUNCSTART token prints exactly one
\* notice, which names the function of that head and the file, stays in
\* ReadFunc, and leaves the current function name, its identifier set, the
\* brace depth and the file's function map as they were.
C17_NestedHeadOnlyNoticed ==
    [][(/\ pc = "scan"
        /\ state = "ReadFunc"
        /\ Len(consumed') = Len(consumed) + 1
        /\ consumed'[Len(consumed')].kind = "FUNCSTART") =>
          \E n \in Names :
             /\ consumed'[Len(consumed')].value = HeadText(n)
             /\ stdout' = Append(stdout,
                            [kind |-> "nested", name |-> n, path |-> path])
             /\ pc' = "scan"
             /\ state' = "ReadFunc"
             /\ UNCHANGED <<curr_func_name, curr_func_ids, paren_level,
                            ctxFuncs, ctxOrder, path, stderr>>
      ]_vars

\* ReadFunc has just pulled the head of b while it read the body of a, which
\* already had an identifier.
C17_Witness ==
    /\ pc = "scan"
    /\ state = "ReadFunc"
    /\ Len(consumed) >= 2
    /\ LastPulled.kind = "FUNCSTART"
    /\ funcname(LastPulled.value) # curr_func_name
    /\ curr_func_ids # {}
    /\ Len(stdout) = 1
    /\ stdout[1].name = funcname(LastPulled.value)

----------------------------------------------------------------------------
\* The brace depth

\* C18: the brace depth is never negative, and it is at least 1 whenever
\* the machine is in ReadFunc: it starts at 1 with the head's own brace and
\* ReadFunc is left for EndFunc by the token that brings it to 0.
C18_DepthPositiveInBody ==
    /\ paren_level >= 0
    /\ (pc = "scan" /\ state = "ReadFunc") => paren_level >= 1
    /\ (pc = "scan" /\ state = "FuncStartState") =>
          (token.kind = "FUNCSTART" /\ HasBrace(token.value))
    /\ (pc = "scan" /\ state = "EndFunc") =>
          (paren_level = 0 /\ token.kind = "CLOSE_PAREN")

\* A body whose depth rose to 2 has come back to 0 and is about to be
\* committed.
C18_Witness ==
    /\ pc = "scan"
    /\ state = "EndFunc"
    /\ paren_level = 0
    /\ \E i \in 1..Len(consumed) : consumed[i].kind = "OPEN_PAREN"

----------------------------------------------------------------------------
\* The two global tables

\* C19: the global function table and the global path table always have
\* the same keys, from the end of the file loop on these are the keys of the
\* merged table (the filter adds and removes none), and the path recorded
\* for a function is that of a file whose scan committed the function.
C19_TablesShareKeys ==
    /\ DOMAIN funcs = DOMAIN func_paths
    /\ DOMAIN funcs = Declared
    /\ ~Unfiltered => DOMAIN funcs = DOMAIN raw
    /\ \A f \in DOMAIN func_paths :
          \E i \in 1..Len(merged) :
             /\ merged[i].path = func_paths[f]
             /\ f \in DOMAIN merged[i].funcs

\* Two files each committed a function, and the filter has run over both.
C19_Witness ==
    /\ FilterDone
    /\ pc # "crashed"
    /\ Len(merged) = 2
    /\ \E f, g \in DOMAIN funcs :
          /\ func_paths[f] # func_paths[g]
          /\ f \in DOMAIN merged[1].funcs
          /\ g \in DOMAIN merged[2].funcs

----------------------------------------------------------------------------
\* The levels present

\* C20: for an acyclic filtered graph with a function, the levels of the
\* level map are 0 up to the greatest one without a gap: level 0 has a
\* function, and so has level k - 1 whenever level k > 0 has one.
C20_LevelsWithoutGap ==
    (LevelsDone /\ Acyclic(funcs) /\ DOMAIN funcs # {}) =>
        /\ DOMAIN levels = 0..Max(DOMAIN levels)
        /\ \A k \in DOMAIN levels : levels[k] # {}
        /\ \E f \in DOMAIN funcs : Filed(f) /\ LevelOf(f) = 0
        /\ \A f \in DOMAIN funcs :
              LevelOf(f) > 0 =>
                 \E d \in DOMAIN funcs : Filed(d) /\ LevelOf(d) = LevelOf(f) - 1

\* The level map of a graph with two functions at level 0 and one above.
C20_Witness ==
    /\ LevelsDone
    /\ DOMAIN levels = {0, 1}
    /\ Cardinality(levels[0]) = 2
    /\ Cardinality(levels[1]) = 1

====
